---- MODULE Spec2Model ----
(***************************************************************************)
(* Retrieval-and-alignment core of the KNN file viewer:                    *)
(*   editDistance / findKNN          (src/app/routes/home.tsx, 2nd module) *)
(*   getMinHash / calculateSimilarities / getDiffLines (home.tsx)          *)
(*   getLineDiffs / longestCommonSubsequence (src/unnamed/part_000)        *)
(*   Home, the component backed by IndexedDB (home.tsx 469-594)            *)
(*                                                                         *)
(* A JavaScript string is a sequence of UTF-16 code units (naturals).      *)
(* Each function is run in its own frame, a record held in one variable;   *)
(* a frame whose pc is "idle" belongs to a function the specification at   *)
(* hand does not run.                                                      *)
(***************************************************************************)
EXTENDS Integers, Sequences, FiniteSets, TLC

VARIABLES ed,    \* frame of editDistance
          knn,   \* frame of findKNN
          sim,   \* frame of calculateSimilarities
          mh,    \* frame of getMinHash
          ld,    \* frame of getLineDiffs
          dl,    \* frame of getDiffLines
          js,    \* frame of calculateJaccardSimilarity
          home   \* state of the Home component backed by IndexedDB

vars == <<ed, knn, sim, mh, ld, dl, js, home>>

Idle == [pc |-> "idle"]

(***************************************************************************)
(* Values                                                                  *)
(***************************************************************************)
\* IEEE +Infinity of a JS number: larger than every integer the model
\* reaches, and absorbing under addition (see Plus).
Infinity == 1000000

\* The JS value undefined (an absent key of FileData); never a string.
undefined == <<-1>>

\* The separators of split: "\n" and " ".
NL == 10
SP == 32

\* All strings over alphabet S of length at most n.
Strings(S, n) == UNION {[1..k -> S] : k \in 0..n}

\* Array.prototype.join: the pieces with sep between them.
RECURSIVE Join(_, _)
Join(pieces, sep) ==
    IF pieces = <<>> THEN <<>>
    ELSE IF Len(pieces) = 1 THEN pieces[1]
    ELSE pieces[1] \o sep \o Join(Tail(pieces), sep)

\* All sequences of 1 to n lines taken from the set pool.
LineSeqs(pool, n) == UNION {[1..k -> pool] : k \in 1..n}

\* All texts of 1 to n lines taken from pool, a "\n" between lines.
Texts(pool, n) == {Join(ls, <<NL>>) : ls \in LineSeqs(pool, n)}

Plus(x, n) == IF x = Infinity THEN Infinity ELSE x + n

Abs(x) == IF x < 0 THEN -x ELSE x

Min2(x, y) == IF x <= y THEN x ELSE y

Min3(x, y, z) == Min2(x, Min2(y, z))

\* JS truthiness of a string-or-undefined value: !s is true for undefined
\* and for the empty string.
Falsy(s) == s = undefined \/ s = <<>>

(***************************************************************************)
(* editDistance (home.tsx 374-414)                                         *)
(***************************************************************************)
\* Bounds of the inputs editDistance is run on directly.
MaxLen == 4
MaxBound == 3

\* The guard of the early return at line 381.
LengthExceeds(lenA, lenB, maxDistance) == Abs(lenA - lenB) > maxDistance

\* The guard of line 407 written with >=.
RowAbort_ge(minInRow, maxDistance) == minInRow >= maxDistance

\* The guard of the early termination at line 407.
RowAbort(minInRow, maxDistance) == minInRow > maxDistance

\* The value the function returns once the main loop has run all rows.
FinalReturn(prev, lenB) == prev[lenB]

\* Row i of the table (lines 394-404): curr[0] = i, the other cells from
\* the previous row and the cell to the left.
CurrRow(a, b, prev, i) ==
    LET curr[j \in 0..Len(b)] ==
            IF j = 0 THEN i
            ELSE Min3(prev[j] + 1,
                      curr[j-1] + 1,
                      prev[j-1] + (IF a[i] = b[j] THEN 0 ELSE 1))
    IN  [j \in 0..Len(b) |-> curr[j]]

\* minInRow after the inner loop: starts at i (= curr[0]), then the minimum
\* with every curr[j].
MinInRow(curr, i, lenB) ==
    LET m[j \in 0..lenB] == IF j = 0 THEN i ELSE Min2(m[j-1], curr[j])
    IN  m[lenB]

\* Lines 375-390: the early exits and the first row.
EdEntry(a, b, maxDistance) ==
    IF Falsy(a) \/ Falsy(b)
    THEN [pc |-> "returned", a |-> a, b |-> b, maxDistance |-> maxDistance,
          prev |-> <<>>, i |-> 0, ret |-> maxDistance, line |-> 376]
    ELSE IF LengthExceeds(Len(a), Len(b), maxDistance)
    THEN [pc |-> "returned", a |-> a, b |-> b, maxDistance |-> maxDistance,
          prev |-> <<>>, i |-> 0, ret |-> Plus(maxDistance, 1), line |-> 381]
    ELSE [pc |-> "loop", a |-> a, b |-> b, maxDistance |-> maxDistance,
          prev |-> [j \in 0..Len(b) |-> j], i |-> 1, ret |-> 0, line |-> 393]

\* Lines 393-413: one iteration of the main loop, or the final return when
\* the loop condition i <= lenA fails.
EdRow(f) ==
    IF f.i > Len(f.a)
    THEN [f EXCEPT !.pc = "returned",
                   !.ret = FinalReturn(f.prev, Len(f.b)),
                   !.line = 413]
    ELSE LET curr == CurrRow(f.a, f.b, f.prev, f.i)
         IN  IF RowAbort(MinInRow(curr, f.i, Len(f.b)), f.maxDistance)
             THEN [f EXCEPT !.pc = "returned",
                            !.ret = Plus(f.maxDistance, 1),
                            !.line = 407]
             ELSE [f EXCEPT !.prev = curr, !.i = f.i + 1]

RECURSIVE EdRun(_)
EdRun(f) == IF f.pc = "returned" THEN f ELSE EdRun(EdRow(f))

\* The whole call: its final frame (ret is the value returned, line the
\* return statement taken, i the row reached).
editDistance(a, b, maxDistance) == EdRun(EdEntry(a, b, maxDistance))

\* --- the function run step by step --------------------------------------
EdInputs == Strings({97, 98}, MaxLen) \cup {undefined}

EdBounds == (0..MaxBound) \cup {Infinity}

InitDist ==
    /\ \E a \in EdInputs, b \in EdInputs, m \in EdBounds :
          ed = [pc |-> "call", a |-> a, b |-> b, maxDistance |-> m,
                prev |-> <<>>, i |-> 0, ret |-> 0, line |-> 374]
    /\ knn = Idle /\ sim = Idle /\ mh = Idle /\ ld = Idle /\ dl = Idle
    /\ js = Idle /\ home = Idle

EditDistanceEntry ==
    /\ ed.pc = "call"
    /\ ed' = EdEntry(ed.a, ed.b, ed.maxDistance)
    /\ UNCHANGED <<knn, sim, mh, ld, dl, js, home>>

EditDistanceRow ==
    /\ ed.pc = "loop"
    /\ ed' = EdRow(ed)
    /\ UNCHANGED <<knn, sim, mh, ld, dl, js, home>>

NextDist == EditDistanceEntry \/ EditDistanceRow

SpecDist == InitDist /\ [][NextDist]_vars

(***************************************************************************)
(* Reference: the Levenshtein distance, by the number of edits on prefixes *)
(* taken column by column (independent of the rolling rows, the length     *)
(* check and the abort of editDistance).                                   *)
(***************************************************************************)
RECURSIVE LevCols(_, _, _, _)
LevCols(a, b, col, j) ==
    IF j > Len(b) THEN col[Len(a)]
    ELSE LET nxt[i \in 0..Len(a)] ==
                 IF i = 0 THEN j
                 ELSE Min3(col[i] + 1, nxt[i-1] + 1,
                           col[i-1] + (IF a[i] = b[j] THEN 0 ELSE 1))
         IN  LevCols(a, b, [i \in 0..Len(a) |-> nxt[i]], j + 1)

lev(a, b) == LevCols(a, b, [i \in 0..Len(a) |-> i], 1)

EdReturnedNonEmpty == ed.pc = "returned" /\ ~Falsy(ed.a) /\ ~Falsy(ed.b)

\* C1: for non-empty a and b and any bound (Infinity included), when the
\* Levenshtein distance of a and b is at most maxDistance, editDistance
\* returns exactly that distance.
C1_WithinBoundExact ==
    (EdReturnedNonEmpty /\ lev(ed.a, ed.b) <= ed.maxDistance)
        => ed.ret = lev(ed.a, ed.b)

\* A call within a finite bound that is as tight as possible (the distance
\* equals the bound, and is positive) has returned through the last line.
C1_Witness ==
    /\ EdReturnedNonEmpty
    /\ ed.maxDistance # Infinity
    /\ lev(ed.a, ed.b) = ed.maxDistance
    /\ ed.maxDistance > 0
    /\ ed.line = 413

\* C2: for non-empty a and b and a finite bound, when the Levenshtein
\* distance exceeds maxDistance, editDistance returns exactly
\* maxDistance + 1.
C2_ExceedsReturnsSentinel ==
    (EdReturnedNonEmpty /\ ed.maxDistance # Infinity
        /\ lev(ed.a, ed.b) > ed.maxDistance)
        => ed.ret = ed.maxDistance + 1

(***************************************************************************)
(* hashFunction / getMinHash / calculateJaccardSimilarity (home.tsx 36-72) *)
(*                                                                         *)
(* A 32-bit word is the pair <<hi, lo>> of its 16-bit halves, so that no   *)
(* intermediate value leaves the range of the checker's integers.  The     *)
(* product hash * 16777619 is a product of IEEE doubles: it is rounded to  *)
(* 53 significant bits before >>> 0 takes it modulo 2^32.                  *)
(***************************************************************************)
\* numHashes of every call the program makes (the default of line 45).
NumHashes == 10

\* The argument of slice(0, 10000) at line 48.
SliceLimit == 10000

\* Infinity as a signature slot: above every unsigned 32-bit word.
InfinitySlot == <<65536, 0>>

RECURSIVE Xor(_, _)
Xor(x, y) ==
    IF x = 0 THEN y
    ELSE IF y = 0 THEN x
    ELSE (((x % 2) + (y % 2)) % 2) + 2 * Xor(x \div 2, y \div 2)

\* w ^ c for a word w and 0 <= c < 2^16 (a seed or a char code): the
\* result is an int32, held as its bit pattern.
XorLow(w, c) == <<w[1], Xor(w[2], c)>>

WordLess(u, v) == u[1] < v[1] \/ (u[1] = v[1] /\ u[2] < v[2])

\* Math.min on signature slots.
MinSlot(u, v) == IF WordLess(v, u) THEN v ELSE u

\* (2^32 - w) mod 2^32.
Negate(w) ==
    IF w[2] = 0 THEN <<(65536 - w[1]) % 65536, 0>>
    ELSE <<65535 - w[1], 65536 - w[2]>>

\* (w + d) mod 2^32 for -8 <= d <= 8.
AddSmall(w, d) ==
    LET lo == w[2] + d
    IN  IF lo < 0 THEN <<(w[1] + 65535) % 65536, lo + 65536>>
        ELSE IF lo >= 65536 THEN <<(w[1] + 1) % 65536, lo - 65536>>
        ELSE <<w[1], lo>>

\* Spacing of the doubles around m * 16777619, for a magnitude m <= 2^31:
\* 1 below 2^53, then 2, 4 and 8 (the thresholds are ceil(2^e / 16777619)
\* for e = 53, 54, 55).
Spacing(m) ==
    IF WordLess(m, <<8191, 52641>>) THEN 1
    ELSE IF WordLess(m, <<16383, 39745>>) THEN 2
    ELSE IF WordLess(m, <<32767, 13954>>) THEN 4
    ELSE 8

\* (hash * 16777619) >>> 0 for the int32 with bit pattern w (line 40):
\* 16777619 = 256 * 2^16 + 403; the product of the magnitude is rounded to
\* the nearest double (ties to even), reduced modulo 2^32, and negated
\* modulo 2^32 when the int32 is negative.
MulPrime(w) ==
    LET neg == w[1] >= 32768
        m   == IF neg THEN Negate(w) ELSE w
        t   == m[2] * 403
        hi  == ((m[1] * 403) + (m[2] * 256) + (t \div 65536)) % 65536
        p   == <<hi, t % 65536>>
        g   == Spacing(m)
        r   == t % g
        q   == (t \div g) % 2
        up  == r * 2 > g \/ (r * 2 = g /\ q = 1)
        x   == AddSmall(p, IF r = 0 THEN 0 ELSE IF up THEN g - r ELSE -r)
    IN  IF neg THEN Negate(x) ELSE x

\* Lines 36-43.  0x811C9DC5 = <<33052, 40389>>.
RECURSIVE HashLoop(_, _, _)
HashLoop(str, i, hash) ==
    IF i > Len(str) THEN hash
    ELSE HashLoop(str, i + 1, MulPrime(XorLow(hash, str[i])))

hashFunction(str, seed) == HashLoop(str, 1, XorLow(<<33052, 40389>>, seed))

\* String.prototype.split('\n'): the pieces between the separators; never
\* empty (the empty string splits into one empty piece).
RECURSIVE SplitFrom(_, _, _, _)
SplitFrom(str, sep, i, piece) ==
    IF i > Len(str) THEN <<piece>>
    ELSE IF str[i] = sep THEN <<piece>> \o SplitFrom(str, sep, i + 1, <<>>)
    ELSE SplitFrom(str, sep, i + 1, Append(piece, str[i]))

Split(str, sep) == SplitFrom(str, sep, 1, <<>>)

\* White space String.prototype.trim removes (the code units below 256).
IsWhiteSpace(c) == c \in {9, 10, 11, 12, 13, 32, 160}

RECURSIVE TrimStart(_)
TrimStart(s) ==
    IF s # <<>> /\ IsWhiteSpace(Head(s)) THEN TrimStart(Tail(s)) ELSE s

RECURSIVE TrimEnd(_)
TrimEnd(s) ==
    IF s # <<>> /\ IsWhiteSpace(s[Len(s)])
    THEN TrimEnd(SubSeq(s, 1, Len(s) - 1)) ELSE s

\* trimStart() in the place of trim().
Trim_startOnly(s) == TrimStart(s)

\* Line 59: sentence.trim()
Trim(s) == TrimEnd(TrimStart(s))

Slice0(text, n) == SubSeq(text, 1, Min2(Len(text), n))

\* Line 47-49.
Sentences(text) == Split(Slice0(text, SliceLimit), NL)

\* Lines 57-60 for hash function i (0-based): the slot after the inner loop.
RECURSIVE SlotLoop(_, _, _, _)
SlotLoop(sentences, n, i, slot) ==
    IF n > Len(sentences) THEN slot
    ELSE SlotLoop(sentences, n + 1, i,
                  MinSlot(slot, hashFunction(Trim(sentences[n]), i)))

MinHashSlot(sentences, i) == SlotLoop(sentences, 1, i, InfinitySlot)

\* Lines 45-64; slot i (0-based) of the code is element i + 1.
getMinHash(text, numHashes) ==
    [i \in 1..numHashes |-> MinHashSlot(Sentences(text), i - 1)]

\* Lines 66-72: matches / sig1.length, kept as the fraction it is.
Matches(sig1, sig2) ==
    Cardinality({i \in 1..Len(sig1) : i \in DOMAIN sig2 /\ sig1[i] = sig2[i]})

calculateJaccardSimilarity(sig1, sig2) ==
    [num |-> Matches(sig1, sig2), den |-> Len(sig1)]

(***************************************************************************)
(* Array.prototype.sort with a comparator (stable since ES2019) and slice  *)
(***************************************************************************)
\* slice(0, k)
SliceK(seq, k) == SubSeq(seq, 1, Min2(Len(seq), k))

(***************************************************************************)
(* findKNN (home.tsx 417-438)                                              *)
(***************************************************************************)
MaxContentLen == 2

Paths == {"A", "B", "C"}

\* fileIndex.paths: Object.keys of the fetched corpus, in insertion order.
PathList == <<"A", "B", "C">>

\* The values of k: one that truncates, and the default of line 417.
Ks == {1, 5}

\* data[key] (lines 418, 431, 80, 84): undefined for a key the object lacks.
Get(obj, key) == IF key \in DOMAIN obj THEN obj[key] ELSE undefined

\* The value `undefined` takes in the arithmetic of line 425.
NaN == -1000000

\* fileIndex.lengths[path] as a number (lines 419, 424).
LengthOf(fileIndex, path) ==
    IF path \in DOMAIN fileIndex.lengths THEN fileIndex.lengths[path] ELSE NaN

\* Line 425 without the division by 2.
LengthAdmissible_full(len, targetLen) == Abs(len - targetLen) <= targetLen

\* Line 425: Math.abs(len - targetLen) <= targetLen / 2, a comparison of
\* reals, stated on integers; a comparison with NaN is false.
LengthAdmissible(len, targetLen) ==
    /\ len # NaN
    /\ targetLen # NaN
    /\ 2 * Abs(len - targetLen) <= targetLen

\* Lines 422-426.
Candidates(fileIndex, target) ==
    SelectSeq(fileIndex.paths,
              LAMBDA path : /\ path # target
                            /\ LengthAdmissible(LengthOf(fileIndex, path),
                                                LengthOf(fileIndex, target)))

\* Lines 429-432: the editDistance call made for each candidate (the final
\* frame of each call, in order).
KnnCalls(fileIndex, data, target) ==
    LET cands == Candidates(fileIndex, target)
    IN  [n \in 1..Len(cands) |->
            editDistance(Get(data, target), Get(data, cands[n]),
                         LengthOf(fileIndex, target))]

\* Line 433.
KeepDistance(item) == item.distance # Infinity

\* An insertion that puts x before the elements equal to it (a sort that
\* is not stable).
RECURSIVE InsertByDistance_unstable(_, _)
InsertByDistance_unstable(sorted, x) ==
    IF sorted = <<>> THEN <<x>>
    ELSE IF Head(sorted).distance - x.distance >= 0 THEN <<x>> \o sorted
    ELSE <<Head(sorted)>> \o InsertByDistance_unstable(Tail(sorted), x)

\* Line 434: sort((a, b) => a.distance - b.distance); x is placed behind
\* every element already placed that the comparator does not put after it.
RECURSIVE InsertByDistance(_, _)
InsertByDistance(sorted, x) ==
    IF sorted = <<>> THEN <<x>>
    ELSE IF Head(sorted).distance - x.distance > 0 THEN <<x>> \o sorted
    ELSE <<Head(sorted)>> \o InsertByDistance(Tail(sorted), x)

RECURSIVE SortByDistance(_)
SortByDistance(items) ==
    IF items = <<>> THEN <<>>
    ELSE InsertByDistance(SortByDistance(SubSeq(items, 1, Len(items) - 1)),
                          items[Len(items)])

\* Lines 417-438: the frame after the call.
findKNN(fileIndex, data, target, k) ==
    LET cands  == Candidates(fileIndex, target)
        calls  == KnnCalls(fileIndex, data, target)
        mapped == [n \in 1..Len(cands) |->
                      [path |-> cands[n], distance |-> calls[n].ret]]
        kept   == SelectSeq(mapped, KeepDistance)
    IN  [pc |-> "returned", fileIndex |-> fileIndex, data |-> data,
         target |-> target, k |-> k, candidates |-> cands, calls |-> calls,
         ret |-> SliceK(SortByDistance(kept), k)]

(***************************************************************************)
(* calculateSimilarities (home.tsx 75-91)                                  *)
(***************************************************************************)
\* The most lines a content of the approximate host has.
MaxTextLines == 2

\* Line 89: sort((a, b) => b.similarity - a.similarity), on fractions.
SimGreater(x, y) == x.similarity.num * y.similarity.den
                       > y.similarity.num * x.similarity.den

RECURSIVE InsertBySimilarity(_, _)
InsertBySimilarity(sorted, x) ==
    IF sorted = <<>> THEN <<x>>
    ELSE IF SimGreater(x, Head(sorted)) THEN <<x>> \o sorted
    ELSE <<Head(sorted)>> \o InsertBySimilarity(Tail(sorted), x)

RECURSIVE SortBySimilarity(_)
SortBySimilarity(items) ==
    IF items = <<>> THEN <<>>
    ELSE InsertBySimilarity(SortBySimilarity(SubSeq(items, 1, Len(items) - 1)),
                            items[Len(items)])

\* The corpus contents of the approximate host, and the signature of each
\* (getMinHash is a pure function of the content).
SimContents == Texts({<<97>>, <<98>>}, MaxTextLines) \cup {<<>>}

SignatureOf == [text \in SimContents |-> getMinHash(text, NumHashes)]

\* Lines 75-91: the frame after the call. getMinHash(undefined) throws a
\* TypeError at `text.slice` (line 48), for the selected path (line 80) or
\* for another path (line 84).
calculateSimilarities(data, selectedPath, allPaths, k) ==
    LET others == SelectSeq(allPaths, LAMBDA path : path # selectedPath)
        read   == <<selectedPath>> \o others
    IN  IF \E n \in 1..Len(read) : Get(data, read[n]) = undefined
        THEN [pc |-> "threw", error |-> "TypeError", data |-> data,
              selectedPath |-> selectedPath, allPaths |-> allPaths, k |-> k]
        ELSE
    LET selectedSig == SignatureOf[data[selectedPath]]
        mapped == [n \in 1..Len(others) |->
                      [path |-> others[n],
                       similarity |-> calculateJaccardSimilarity(
                                         selectedSig, SignatureOf[data[others[n]]])]]
    IN  [pc |-> "returned", data |-> data, selectedPath |-> selectedPath,
         allPaths |-> allPaths, k |-> k,
         ret |-> SliceK(SortBySimilarity(mapped), k)]

\* --- the two retrieval hosts --------------------------------------------
\* Exact host: fileIndex is derived from the fetched corpus; data holds the
\* contents loaded so far, undefined for a path not loaded.
KnnContents == Strings({97, 98}, MaxContentLen)

KnnEntries ==
    {[content |-> c, length |-> Len(c)] : c \in KnnContents}
        \cup {[content |-> undefined, length |-> n] : n \in 0..MaxContentLen}

InitExact ==
    /\ \E e \in [Paths -> KnnEntries], target \in Paths, k \in Ks :
          knn = [pc |-> "call",
                 fileIndex |-> [paths |-> PathList,
                                lengths |-> [p \in Paths |-> e[p].length]],
                 data |-> [p \in Paths |-> e[p].content],
                 target |-> target, k |-> k,
                 candidates |-> <<>>, calls |-> <<>>, ret |-> <<>>]
    /\ sim = Idle

\* Approximate host: data is the whole fetched corpus.
InitApproximate ==
    /\ \E d \in [Paths -> SimContents], selectedPath \in Paths, k \in Ks :
          sim = [pc |-> "call", data |-> d, selectedPath |-> selectedPath,
                 allPaths |-> PathList, k |-> k, ret |-> <<>>]
    /\ knn = Idle

InitRetrieve ==
    /\ InitExact \/ InitApproximate
    /\ ed = Idle /\ mh = Idle /\ ld = Idle /\ dl = Idle
    /\ js = Idle /\ home = Idle

FindKNN ==
    /\ knn.pc = "call"
    /\ knn' = findKNN(knn.fileIndex, knn.data, knn.target, knn.k)
    /\ UNCHANGED <<ed, sim, mh, ld, dl, js, home>>

CalculateSimilarities ==
    /\ sim.pc = "call"
    /\ sim' = calculateSimilarities(sim.data, sim.selectedPath, sim.allPaths, sim.k)
    /\ UNCHANGED <<ed, knn, mh, ld, dl, js, home>>

NextRetrieve == FindKNN \/ CalculateSimilarities

SpecRetrieve == InitRetrieve /\ [][NextRetrieve]_vars

\* --- claims on retrieval -------------------------------------------------
KnnReturned == knn.pc = "returned"

\* Lq: the length of the query content, as the index records it.
Lq == knn.fileIndex.lengths[knn.target]

\* Position of a path in the corpus path list.
PathPos(p) == CHOOSE n \in 1..Len(PathList) : PathList[n] = p

\* The editDistance call findKNN made for candidate path p.
CallFor(p) ==
    knn.calls[CHOOSE n \in 1..Len(knn.candidates) : knn.candidates[n] = p]

\* C3: exact-mode retrieval discards every candidate whose editDistance
\* result is a sentinel: no returned entry has distance Lq + 1, none comes
\* from a call that took the empty-input rule, and every returned distance
\* is the real edit distance and at most Lq.
C3_NoSentinelReturned ==
    KnnReturned =>
        \A n \in 1..Len(knn.ret) :
            /\ knn.ret[n].distance # Lq + 1
            /\ CallFor(knn.ret[n].path).line # 376
            /\ knn.ret[n].distance
                  = lev(knn.data[knn.target], knn.data[knn.ret[n].path])
            /\ knn.ret[n].distance <= Lq

\* C4: a path is in the result of findKNN only if it is not the query and
\* |length(P) - Lq| <= Lq / 2 (so never when |Lp - Lq| > Lq), and
\* editDistance is called for no path that fails this length filter.
C4_LengthPruning ==
    KnnReturned =>
        /\ \A n \in 1..Len(knn.ret) :
              LET P == knn.ret[n].path
              IN  /\ P # knn.target
                  /\ 2 * Abs(knn.fileIndex.lengths[P] - Lq) <= Lq
                  /\ ~(Abs(knn.fileIndex.lengths[P] - Lq) > Lq)
        /\ Len(knn.calls) = Len(knn.candidates)
        /\ \A n \in 1..Len(knn.candidates) :
              LET P == knn.candidates[n]
              IN  /\ P # knn.target
                  /\ 2 * Abs(knn.fileIndex.lengths[P] - Lq) <= Lq

\* A call that returned a neighbour and pruned another path by its length.
C4_Witness ==
    /\ KnnReturned
    /\ Len(knn.ret) > 0
    /\ \E P \in Paths \ {knn.target} :
          2 * Abs(knn.fileIndex.lengths[P] - Lq) > Lq

\* The paths that survive in exact mode, and the score of each.
ExactSurvivors ==
    {P \in Paths \ {knn.target} :
        /\ 2 * Abs(knn.fileIndex.lengths[P] - Lq) <= Lq
        /\ editDistance(knn.data[knn.target], knn.data[P], Lq).ret # Infinity}

ExactScore(P) == editDistance(knn.data[knn.target], knn.data[P], Lq).ret

C5_Exact ==
    KnnReturned =>
        /\ \A n \in 1..Len(knn.ret) :
              /\ knn.ret[n].path \in ExactSurvivors
              /\ knn.ret[n].distance = ExactScore(knn.ret[n].path)
        /\ Len(knn.ret) = Min2(knn.k, Cardinality(ExactSurvivors))
        /\ \A n, m \in 1..Len(knn.ret) :
              n < m =>
                 /\ knn.ret[n].path # knn.ret[m].path
                 /\ knn.ret[n].distance <= knn.ret[m].distance
                 /\ (knn.ret[n].distance = knn.ret[m].distance
                        => PathPos(knn.ret[n].path) < PathPos(knn.ret[m].path))
        /\ \A P \in ExactSurvivors :
              (\A n \in 1..Len(knn.ret) : knn.ret[n].path # P)
                 => /\ Len(knn.ret) > 0
                    /\ ExactScore(P) >= knn.ret[Len(knn.ret)].distance

SimReturned == sim.pc = "returned"

\* The similarity of path P to the query, as a count of agreeing slots out
\* of NumHashes.
ApproxMatches(P) ==
    Cardinality({i \in 1..NumHashes :
        SignatureOf[sim.data[sim.selectedPath]][i]
            = SignatureOf[sim.data[P]][i]})

C5_Approximate ==
    SimReturned =>
        /\ \A n \in 1..Len(sim.ret) :
              /\ sim.ret[n].path \in Paths \ {sim.selectedPath}
              /\ sim.ret[n].similarity.den = NumHashes
              /\ sim.ret[n].similarity.num = ApproxMatches(sim.ret[n].path)
        /\ Len(sim.ret) = Min2(sim.k, Cardinality(Paths \ {sim.selectedPath}))
        /\ \A n, m \in 1..Len(sim.ret) :
              n < m =>
                 /\ sim.ret[n].path # sim.ret[m].path
                 /\ sim.ret[n].similarity.num >= sim.ret[m].similarity.num
                 /\ (sim.ret[n].similarity.num = sim.ret[m].similarity.num
                        => PathPos(sim.ret[n].path) < PathPos(sim.ret[m].path))
        /\ \A P \in Paths \ {sim.selectedPath} :
              (\A n \in 1..Len(sim.ret) : sim.ret[n].path # P)
                 => /\ Len(sim.ret) > 0
                    /\ ApproxMatches(P) <= sim.ret[Len(sim.ret)].similarity.num

\* C5: in both retrieval modes the result excludes the query path, has
\* min(k, number of surviving other paths) entries, is ordered best first
\* (similarity non-increasing, distance non-decreasing) with equal scores in
\* corpus path order, and every omitted path scores no better than the
\* last entry returned.
C5_RankingOrderAndSize == C5_Exact /\ C5_Approximate

\* An exact-mode result holding two entries of equal distance.
C5_Witness ==
    /\ KnnReturned
    /\ Len(knn.ret) = 2
    /\ knn.ret[1].distance = knn.ret[2].distance

\* An approximate-mode result cut to k = 1 that leaves out a path tied with
\* the entry returned, at a similarity strictly between 0 and 1.
C5_WitnessApproximate ==
    /\ SimReturned
    /\ sim.k = 1
    /\ Len(sim.ret) = 1
    /\ sim.ret[1].similarity.num \in 1..(NumHashes - 1)
    /\ \E P \in Paths \ {sim.selectedPath, sim.ret[1].path} :
          ApproxMatches(P) = sim.ret[1].similarity.num

(***************************************************************************)
(* getMinHash run step by step: entry (lines 47-52), one step for each     *)
(* iteration of the outer loop (lines 55-61), return (line 63).            *)
(***************************************************************************)
MaxHashTextLen == 3

HashTexts == Strings({NL, SP, 97, 98}, MaxHashTextLen)

\* numHashes: 1, and the default every caller uses.
HashCounts == {1, NumHashes}

InitHash ==
    /\ \E text \in HashTexts, numHashes \in HashCounts :
          mh = [pc |-> "call", text |-> text, numHashes |-> numHashes,
                sentences |-> <<>>, signature |-> <<>>, i |-> 0]
    /\ ed = Idle /\ knn = Idle /\ sim = Idle /\ ld = Idle /\ dl = Idle
    /\ js = Idle /\ home = Idle

GetMinHashEntry ==
    /\ mh.pc = "call"
    /\ mh' = [mh EXCEPT !.pc = "loop",
                        !.sentences = Sentences(mh.text),
                        !.signature = [n \in 1..mh.numHashes |-> InfinitySlot],
                        !.i = 0]
    /\ UNCHANGED <<ed, knn, sim, ld, dl, js, home>>

GetMinHashIteration ==
    /\ mh.pc = "loop"
    /\ mh.i < mh.numHashes
    /\ mh' = [mh EXCEPT !.signature[mh.i + 1] =
                            SlotLoop(mh.sentences, 1, mh.i, mh.signature[mh.i + 1]),
                        !.i = mh.i + 1]
    /\ UNCHANGED <<ed, knn, sim, ld, dl, js, home>>

GetMinHashReturn ==
    /\ mh.pc = "loop"
    /\ ~(mh.i < mh.numHashes)
    /\ mh' = [mh EXCEPT !.pc = "returned"]
    /\ UNCHANGED <<ed, knn, sim, ld, dl, js, home>>

NextHash == GetMinHashEntry \/ GetMinHashIteration \/ GetMinHashReturn

SpecHash == InitHash /\ [][NextHash]_vars

\* The step-by-step run returns what the function called as a whole does.
HashRunAgrees ==
    mh.pc = "returned" => mh.signature = getMinHash(mh.text, mh.numHashes)

\* C6: the fingerprint of the empty content holds the maximum sentinel
\* (the initial Infinity) in every one of its H slots.
C6_EmptyContentAllInfinity ==
    (mh.pc = "returned" /\ mh.text = <<>>)
        => \A n \in 1..mh.numHashes : mh.signature[n] = InfinitySlot

(***************************************************************************)
(* longestCommonSubsequence (part_000 142-171)                             *)
(***************************************************************************)
Max2(x, y) == IF x >= y THEN x ELSE y

\* The cell without the + 1 of line 148.
DpCell_noIncrement(match, diag, up, left) ==
    IF match THEN diag ELSE Max2(up, left)

\* Lines 147-151: one cell of dp.
DpCell(match, diag, up, left) ==
    IF match THEN diag + 1 ELSE Max2(up, left)

\* Row i >= 1 of dp, from row i - 1 (dp[i][0] stays 0).
DpRow(arr1, arr2, up, i) ==
    LET curr[j \in 0..Len(arr2)] ==
            IF j = 0 THEN 0
            ELSE DpCell(arr1[i] = arr2[j], up[j-1], up[j], curr[j-1])
    IN  [j \in 0..Len(arr2) |-> curr[j]]

\* Lines 143-153: rows 0..i of dp; row r is element r + 1.
RECURSIVE DpRows(_, _, _)
DpRows(arr1, arr2, i) ==
    IF i = 0 THEN <<[j \in 0..Len(arr2) |-> 0]>>
    ELSE LET t == DpRows(arr1, arr2, i - 1)
         IN  Append(t, DpRow(arr1, arr2, t[i], i))

\* Lines 158-168: the walk back from dp[i][j], lcs being built by unshift.
RECURSIVE LcsTrace(_, _, _, _, _, _)
LcsTrace(arr1, arr2, dp, i, j, lcs) ==
    IF ~(i > 0 /\ j > 0) THEN lcs
    ELSE IF arr1[i] = arr2[j]
    THEN LcsTrace(arr1, arr2, dp, i - 1, j - 1, <<arr1[i]>> \o lcs)
    ELSE IF dp[i][j] > dp[i + 1][j - 1]
    THEN LcsTrace(arr1, arr2, dp, i - 1, j, lcs)
    ELSE LcsTrace(arr1, arr2, dp, i, j - 1, lcs)

\* The walk back started one row short of the last.
longestCommonSubsequence_dropLast(arr1, arr2) ==
    LcsTrace(arr1, arr2, DpRows(arr1, arr2, Len(arr1)),
             Max2(Len(arr1) - 1, 0), Len(arr2), <<>>)

\* Lines 142-171.
longestCommonSubsequence(arr1, arr2) ==
    LcsTrace(arr1, arr2, DpRows(arr1, arr2, Len(arr1)), Len(arr1), Len(arr2), <<>>)

(***************************************************************************)
(* getLineDiffs (part_000 94-140)                                          *)
(*                                                                         *)
(* Each markup literal of the program is written as one symbol above the   *)
(* UTF-16 range, so that it cannot occur in an input:                      *)
(*   <span class="text-red-500">, <span class="text-green-500">, </span>   *)
(*   and the placeholder text &nbsp.                                       *)
(***************************************************************************)
SpanRedOpen == <<70001>>
SpanGreenOpen == <<70002>>
SpanClose == <<70003>>
Nbsp == <<70004>>

\* slice(0, 100) / slice(100) of lines 113-120.
WordCap == 100

\* The span without the word in it.
Highlight_noWord(open, word) == open \o SpanClose

\* `<span class="...">${word}</span>`
Highlight(open, word) == open \o word \o SpanClose

Includes(words, word) == \E n \in 1..Len(words) : words[n] = word

\* lines[i]?.split(' ') || []  (i is 0-based)
WordsAt(lines, i) == IF i < Len(lines) THEN Split(lines[i + 1], SP) ELSE <<>>

\* Lines 113-121: the words of one side, each marked when it is not among
\* the words of the other side; the words past the cap as one marked span.
WordsDiff(words, others, open) ==
    LET head == SubSeq(words, 1, Min2(Len(words), WordCap))
        marked == [n \in 1..Len(head) |->
                      IF Includes(others, head[n]) THEN head[n]
                      ELSE Highlight(open, head[n])]
    IN  IF Len(words) > WordCap
        THEN Append(marked,
                    Highlight(open, Join(SubSeq(words, WordCap + 1, Len(words)), <<SP>>)))
        ELSE marked

\* Line 104.
IsSameStep(f) ==
    /\ f.k < Len(f.lcs)
    /\ f.i < Len(f.lines1)
    /\ f.j < Len(f.lines2)
    /\ f.lines1[f.i + 1] = f.lines2[f.j + 1]

\* The test without its `k >= lcs.length` alternative.
SideAdvances_inLcs(lines, c, lcs, k) ==
    c < Len(lines) /\ k < Len(lcs) /\ lines[c + 1] # lcs[k + 1]

\* Lines 123 and 130: the side's next line is not the current LCS element.
SideAdvances(lines, c, lcs, k) ==
    c < Len(lines) /\ (k >= Len(lcs) \/ lines[c + 1] # lcs[k + 1])

\* A side that pushes nothing when it does not advance.
PlaceholderRows_none == <<>>

\* Lines 127 and 134: what a side pushes when it does not advance.
PlaceholderRows == <<[text |-> Nbsp, type |-> "same"]>>

\* Lines 104-136: one iteration of the while loop.
LdStep(f) ==
    IF IsSameStep(f)
    THEN [f EXCEPT !.result1 = Append(@, [text |-> f.lines1[f.i + 1], type |-> "same"]),
                   !.result2 = Append(@, [text |-> f.lines2[f.j + 1], type |-> "same"]),
                   !.i = @ + 1, !.j = @ + 1, !.k = @ + 1]
    ELSE LET words1 == WordsAt(f.lines1, f.i)
             words2 == WordsAt(f.lines2, f.j)
             wordsDiff1 == WordsDiff(words1, words2, SpanRedOpen)
             wordsDiff2 == WordsDiff(words2, words1, SpanGreenOpen)
             adv1 == SideAdvances(f.lines1, f.i, f.lcs, f.k)
             adv2 == SideAdvances(f.lines2, f.j, f.lcs, f.k)
         IN  [f EXCEPT
                !.result1 = @ \o (IF adv1
                                  THEN <<[text |-> Join(wordsDiff1, <<SP>>), type |-> "diff"]>>
                                  ELSE PlaceholderRows),
                !.i = IF adv1 THEN @ + 1 ELSE @,
                !.result2 = @ \o (IF adv2
                                  THEN <<[text |-> Join(wordsDiff2, <<SP>>), type |-> "diff"]>>
                                  ELSE PlaceholderRows),
                !.j = IF adv2 THEN @ + 1 ELSE @]

\* --- the function run step by step --------------------------------------
MaxLines == 3

\* The lines the inputs are made of: "", "a", "b" and "a b".
LinePool == {<<>>, <<97>>, <<98>>, <<97, SP, 98>>}

DiffInputs == Texts(LinePool, MaxLines)

InitLineDiffs ==
    /\ \E str1 \in DiffInputs, str2 \in DiffInputs :
          ld = [pc |-> "call", str1 |-> str1, str2 |-> str2,
                lines1 |-> <<>>, lines2 |-> <<>>, lcs |-> <<>>,
                result1 |-> <<>>, result2 |-> <<>>, i |-> 0, j |-> 0, k |-> 0]
    /\ ed = Idle /\ knn = Idle /\ sim = Idle /\ mh = Idle /\ dl = Idle
    /\ js = Idle /\ home = Idle

\* Lines 95-102.
GetLineDiffsEntry ==
    /\ ld.pc = "call"
    /\ ld' = [ld EXCEPT !.pc = "loop",
                        !.lines1 = Split(ld.str1, NL),
                        !.lines2 = Split(ld.str2, NL),
                        !.lcs = longestCommonSubsequence(Split(ld.str1, NL),
                                                         Split(ld.str2, NL))]
    /\ UNCHANGED <<ed, knn, sim, mh, dl, js, home>>

\* The loop condition of line 103.
LdLoopCondition == ld.i < Len(ld.lines1) \/ ld.j < Len(ld.lines2)

\* One iteration; the run is followed for at most one iteration more than
\* the n + m an advancing walk can take.
GetLineDiffsIteration ==
    /\ ld.pc = "loop"
    /\ LdLoopCondition
    /\ Len(ld.result1) <= Len(ld.lines1) + Len(ld.lines2)
    /\ ld' = LdStep(ld)
    /\ UNCHANGED <<ed, knn, sim, mh, dl, js, home>>

\* Line 139.
GetLineDiffsReturn ==
    /\ ld.pc = "loop"
    /\ ~LdLoopCondition
    /\ ld' = [ld EXCEPT !.pc = "returned"]
    /\ UNCHANGED <<ed, knn, sim, mh, dl, js, home>>

NextLineDiffs == GetLineDiffsEntry \/ GetLineDiffsIteration \/ GetLineDiffsReturn

SpecLineDiffs == InitLineDiffs /\ [][NextLineDiffs]_vars

\* --- claims on getLineDiffs ---------------------------------------------
LdReturned == ld.pc = "returned"

IsPlaceholder(row) == row.text = Nbsp

\* The text of a row with the highlighting markup taken out.
Unmarked(text) == SelectSeq(text, LAMBDA c : c < 65536)

RowTexts(rows) == [n \in 1..Len(rows) |-> rows[n].text]

\* C7: the two partial outputs of getLineDiffs have equal length after
\* every loop iteration and on return, every iteration pushing exactly one
\* row on each side.
C7_LcsSidesAligned ==
    /\ [](Len(ld.result1) = Len(ld.result2))
    /\ [][GetLineDiffsIteration =>
             /\ Len(ld.result1') = Len(ld.result1) + 1
             /\ Len(ld.result2') = Len(ld.result2) + 1]_vars

\* A returned alignment holding a placeholder on each side.
C7_Witness ==
    /\ LdReturned
    /\ \E n \in 1..Len(ld.result1) : IsPlaceholder(ld.result1[n])
    /\ \E n \in 1..Len(ld.result2) : IsPlaceholder(ld.result2[n])

\* C9 as claimed: the texts of the non-placeholder left rows are, in order,
\* exactly the lines of the left input, text unchanged; symmetrically for
\* the right rows.
C9_RoundTripVerbatim ==
    LdReturned =>
        /\ RowTexts(SelectSeq(ld.result1, LAMBDA row : ~IsPlaceholder(row)))
              = Split(ld.str1, NL)
        /\ RowTexts(SelectSeq(ld.result2, LAMBDA row : ~IsPlaceholder(row)))
              = Split(ld.str2, NL)

\* C9 amended: the texts of the non-placeholder rows, with the highlighting
\* spans of changed rows taken out, are in order exactly the lines of the
\* input on that side.
C9_RoundTripUnmarked ==
    LdReturned =>
        /\ [n \in 1..Len(SelectSeq(ld.result1, LAMBDA row : ~IsPlaceholder(row))) |->
               Unmarked(SelectSeq(ld.result1, LAMBDA row : ~IsPlaceholder(row))[n].text)]
              = Split(ld.str1, NL)
        /\ [n \in 1..Len(SelectSeq(ld.result2, LAMBDA row : ~IsPlaceholder(row))) |->
               Unmarked(SelectSeq(ld.result2, LAMBDA row : ~IsPlaceholder(row))[n].text)]
              = Split(ld.str2, NL)

\* A returned alignment with a changed row carrying a highlighted word on
\* each side, and a changed row carrying an unmarked word.
C9_Witness ==
    /\ LdReturned
    /\ \E n \in 1..Len(ld.result1) :
          /\ ld.result1[n].type = "diff"
          /\ ld.result1[n].text # Unmarked(ld.result1[n].text)
    /\ \E n \in 1..Len(ld.result2) :
          /\ ld.result2[n].type = "diff"
          /\ ld.result2[n].text # Unmarked(ld.result2[n].text)
          /\ Unmarked(ld.result2[n].text) = <<97, SP, 98>>

\* The inputs have the same number of lines and differ at line p only.
DiffersOnlyAt(p) ==
    /\ Len(ld.lines1) = Len(ld.lines2)
    /\ p \in 1..Len(ld.lines1)
    /\ \A q \in 1..Len(ld.lines1) : (ld.lines1[q] # ld.lines2[q]) <=> q = p

InLines(lines, line) == \E q \in 1..Len(lines) : lines[q] = line

\* n rows on each side, same/same at every row but p, and at row p a
\* changed/changed pair rendering the two differing lines.
SubstitutionRows(p) ==
    /\ Len(ld.result1) = Len(ld.lines1)
    /\ Len(ld.result2) = Len(ld.lines2)
    /\ \A q \in 1..Len(ld.lines1) :
          IF q = p
          THEN /\ ld.result1[q].type = "diff"
               /\ ld.result2[q].type = "diff"
               /\ Unmarked(ld.result1[q].text) = ld.lines1[p]
               /\ Unmarked(ld.result2[q].text) = ld.lines2[p]
          ELSE /\ ld.result1[q] = [text |-> ld.lines1[q], type |-> "same"]
               /\ ld.result2[q] = [text |-> ld.lines2[q], type |-> "same"]

\* C10 as claimed: for inputs of n lines that differ at exactly one index p
\* (repeated lines allowed), getLineDiffs gives n rows per side, same/same
\* everywhere but a changed/changed pair of the differing lines at row p.
C10_SubstitutionAnyLines ==
    LdReturned =>
        \A p \in 1..Len(ld.lines1) : DiffersOnlyAt(p) => SubstitutionRows(p)

\* C10 amended: the same, for inputs in which neither of the two differing
\* lines occurs anywhere in the other input.
C10_SubstitutionFreshLines ==
    LdReturned =>
        \A p \in 1..Len(ld.lines1) :
            (/\ DiffersOnlyAt(p)
             /\ ~InLines(ld.lines2, ld.lines1[p])
             /\ ~InLines(ld.lines1, ld.lines2[p]))
                => SubstitutionRows(p)

\* A returned three-line substitution in the middle, with a line repeated
\* around it.
C10_Witness ==
    /\ LdReturned
    /\ Len(ld.lines1) = 3
    /\ DiffersOnlyAt(2)
    /\ ld.lines1[1] = ld.lines1[3]
    /\ ~InLines(ld.lines2, ld.lines1[2])
    /\ ~InLines(ld.lines1, ld.lines2[2])
    /\ SubstitutionRows(2)

(***************************************************************************)
(* getDiffLines (home.tsx 94-124 and 441-467)                              *)
(***************************************************************************)
\* Lines 106 / 449.
DlSameStep(f) ==
    /\ f.i < Len(f.lines1)
    /\ f.j < Len(f.lines2)
    /\ f.lines1[f.i + 1] = f.lines2[f.j + 1]

\* Lines 106-120 / 449-463: one iteration of the while loop.
DlStep(f) ==
    IF DlSameStep(f)
    THEN [f EXCEPT !.result1 = Append(@, [text |-> f.lines1[f.i + 1], type |-> "same"]),
                   !.result2 = Append(@, [text |-> f.lines2[f.j + 1], type |-> "same"]),
                   !.i = @ + 1, !.j = @ + 1]
    ELSE [f EXCEPT
             !.result1 = IF f.i < Len(f.lines1)
                         THEN Append(@, [text |-> f.lines1[f.i + 1], type |-> "removed"])
                         ELSE @,
             !.i = IF f.i < Len(f.lines1) THEN @ + 1 ELSE @,
             !.result2 = IF f.j < Len(f.lines2)
                         THEN Append(@, [text |-> f.lines2[f.j + 1], type |-> "added"])
                         ELSE @,
             !.j = IF f.j < Len(f.lines2) THEN @ + 1 ELSE @]

InitDiffLines ==
    /\ \E str1 \in DiffInputs, str2 \in DiffInputs :
          dl = [pc |-> "call", str1 |-> str1, str2 |-> str2,
                lines1 |-> <<>>, lines2 |-> <<>>,
                result1 |-> <<>>, result2 |-> <<>>, i |-> 0, j |-> 0]
    /\ ed = Idle /\ knn = Idle /\ sim = Idle /\ mh = Idle /\ ld = Idle
    /\ js = Idle /\ home = Idle

\* Lines 95-104 / 442-447 (str || "" leaves a string as it is).
GetDiffLinesEntry ==
    /\ dl.pc = "call"
    /\ dl' = [dl EXCEPT !.pc = "loop",
                        !.lines1 = Split(dl.str1, NL),
                        !.lines2 = Split(dl.str2, NL)]
    /\ UNCHANGED <<ed, knn, sim, mh, ld, js, home>>

DlLoopCondition == dl.i < Len(dl.lines1) \/ dl.j < Len(dl.lines2)

GetDiffLinesIteration ==
    /\ dl.pc = "loop"
    /\ DlLoopCondition
    /\ dl' = DlStep(dl)
    /\ UNCHANGED <<ed, knn, sim, mh, ld, js, home>>

\* Lines 123 / 466.
GetDiffLinesReturn ==
    /\ dl.pc = "loop"
    /\ ~DlLoopCondition
    /\ dl' = [dl EXCEPT !.pc = "returned"]
    /\ UNCHANGED <<ed, knn, sim, mh, ld, js, home>>

NextDiffLines == GetDiffLinesEntry \/ GetDiffLinesIteration \/ GetDiffLinesReturn

SpecDiffLines == InitDiffLines /\ [][NextDiffLines]_vars

\* C8: getDiffLines returns left and right sequences of equal length, also
\* for inputs with different numbers of lines.
C8_TwoPointerSidesAligned ==
    dl.pc = "returned" => Len(dl.result1) = Len(dl.result2)

(***************************************************************************)
(* calculateJaccardSimilarity called on two arbitrary signatures           *)
(* (home.tsx lines 66-72)                                                  *)
(***************************************************************************)
MaxSigLen == 2

\* Slot values a signature can hold: 32-bit hashes and the initial Infinity.
SigSlots == {<<0, 0>>, <<33052, 40389>>, InfinitySlot}

Signatures == UNION {[1..n -> SigSlots] : n \in 0..MaxSigLen}

InitSimilarity ==
    /\ \E sig1 \in Signatures, sig2 \in Signatures :
          js = [pc |-> "call", sig1 |-> sig1, sig2 |-> sig2]
    /\ ed = Idle /\ knn = Idle /\ sim = Idle /\ mh = Idle
    /\ ld = Idle /\ dl = Idle /\ home = Idle

\* The function has no throw statement and no operation that can throw on
\* arrays: the call always reaches `return matches / sig1.length`.
CalculateJaccardSimilarity ==
    /\ js.pc = "call"
    /\ js' = [js EXCEPT !.pc = "returned"]
                @@ [ret |-> calculateJaccardSimilarity(js.sig1, js.sig2)]
    /\ UNCHANGED <<ed, knn, sim, mh, ld, dl, home>>

NextSimilarity == CalculateJaccardSimilarity

SpecSimilarity == InitSimilarity /\ [][NextSimilarity]_vars

\* C11: a call of calculateJaccardSimilarity with signatures of different
\* lengths ends in an error outcome and returns no numeric similarity.
\* The code returns matches / sig1.length for every pair of arrays.
C11_MismatchRejected ==
    (js.pc # "idle" /\ js.pc # "call" /\ Len(js.sig1) # Len(js.sig2))
        => js.pc = "threw"

(***************************************************************************)
(* The retrieval functions called with a query path the corpus lacks       *)
(* (home.tsx 417-438 and 75-91)                                            *)
(***************************************************************************)
\* A path that is a key neither of the corpus nor of fileIndex.lengths.
MissingPath == "Z"

InitMissingExact ==
    /\ \E e \in [Paths -> KnnEntries], k \in Ks :
          knn = [pc |-> "call",
                 fileIndex |-> [paths |-> PathList,
                                lengths |-> [p \in Paths |-> e[p].length]],
                 data |-> [p \in Paths |-> e[p].content],
                 target |-> MissingPath, k |-> k,
                 candidates |-> <<>>, calls |-> <<>>, ret |-> <<>>]
    /\ sim = Idle

InitMissingApproximate ==
    /\ \E d \in [Paths -> SimContents], k \in Ks :
          sim = [pc |-> "call", data |-> d, selectedPath |-> MissingPath,
                 allPaths |-> PathList, k |-> k, ret |-> <<>>]
    /\ knn = Idle

InitMissing ==
    /\ InitMissingExact \/ InitMissingApproximate
    /\ ed = Idle /\ mh = Idle /\ ld = Idle /\ dl = Idle
    /\ js = Idle /\ home = Idle

SpecMissing == InitMissing /\ [][NextRetrieve]_vars

\* C12: a call of findKNN or of calculateSimilarities with a query path
\* that is not a key of the corpus ends in an error outcome; it never
\* returns a result list, not even an empty one.
\* findKNN returns the empty list: its target length is undefined, every
\* comparison of line 425 is false and no candidate is left.
C12_MissingQueryRejected ==
    /\ (knn.pc # "idle" /\ knn.pc # "call" /\ knn.target = MissingPath)
          => knn.pc = "threw"
    /\ (sim.pc # "idle" /\ sim.pc # "call" /\ sim.selectedPath = MissingPath)
          => sim.pc = "threw"

(***************************************************************************)
(* The Home component of the exact host (home.tsx 469-594) on a first      *)
(* visit: the 'files' object store of IndexedDB starts empty.              *)
(***************************************************************************)
\* The initial value of selectedFile and selectedSimilarFile (lines 472-473).
null == <<-2>>

\* The file names "a", "b" and "aa", in the key order of the fetched
\* /data.json.
HomePathList == <<<<97>>, <<98>>, <<97, 97>>>>

HomePaths == {HomePathList[n] : n \in 1..Len(HomePathList)}

\* The contents a file of the fetched corpus can have: "", "a", "b", "aa"
\* and "ab" (a content can be the name of a file).
HomeContents == {<<>>, <<97>>, <<98>>, <<97, 97>>, <<97, 98>>}

\* The most calls of loadFileContent for one path that are in flight.
MaxPending == 2

\* IDBObjectStore.put(value, key) on a store with out-of-line keys.
Put(store, value, key) == (key :> value) @@ store

\* IDBObjectStore.get(key).result
StoreGet(store, key) == Get(store, key)

\* Lines 562-565: store.put(path, jsonResponse[path]) for each path, in
\* order; the first argument of put is the value and the second the key.
RECURSIVE PutLoop(_, _, _, _)
PutLoop(store, jsonResponse, paths, i) ==
    IF i >= Len(paths) THEN store
    ELSE PutLoop(Put(store, paths[i + 1], jsonResponse[paths[i + 1]]),
                 jsonResponse, paths, i + 1)

\* Lines 526-529: the memo of findKNN.
SimilarFiles(h) ==
    IF h.selectedFile = null THEN <<>>
    ELSE findKNN(h.fileIndex, h.data, h.selectedFile, 5).ret

\* A call of loadFileContent(path) (line 499): one more request in flight.
StartLoad(loads, path) == [loads EXCEPT ![path] = @ + 1]

\* Lines 577-581 and 584-588: the guard of both loading effects.
NeedsLoad(h, path) == path # null /\ Falsy(Get(h.data, path))

\* Lines 590-594, then 584-588 on the render the update causes: the effect
\* that runs when selectedFile or similarFiles has changed.
SimilarEffect(h) ==
    LET similarFiles == SimilarFiles(h)
    IN  IF h.selectedFile # null /\ Len(similarFiles) > 0
             /\ similarFiles[1].path # h.selectedSimilarFile
        THEN LET g == [h EXCEPT !.selectedSimilarFile = similarFiles[1].path]
             IN  IF NeedsLoad(g, g.selectedSimilarFile)
                 THEN [g EXCEPT !.loads = StartLoad(@, g.selectedSimilarFile)]
                 ELSE g
        ELSE h

InitHome ==
    /\ \E jsonResponse \in [HomePaths -> HomeContents] :
          home = [pc |-> "mounted", jsonResponse |-> jsonResponse,
                  fetch |-> "pending",
                  fileIndex |-> [paths |-> <<>>, lengths |-> <<>>],
                  data |-> <<>>, selectedFile |-> null,
                  selectedSimilarFile |-> null,
                  files |-> <<>>, loads |-> [p \in HomePaths |-> 0],
                  served |-> {}]
    /\ ed = Idle /\ knn = Idle /\ sim = Idle /\ mh = Idle
    /\ ld = Idle /\ dl = Idle /\ js = Idle

\* Lines 549-560: the response arrives, setFileIndex; openDB is awaited.
FetchIndexResponse ==
    /\ home.pc = "mounted" /\ home.fetch = "pending"
    /\ home' = [home EXCEPT
                  !.fetch = "opening",
                  !.fileIndex = [paths |-> HomePathList,
                                 lengths |-> [p \in HomePaths |->
                                                 Len(home.jsonResponse[p])]]]
    /\ UNCHANGED <<ed, knn, sim, mh, ld, dl, js>>

\* Lines 549-550, 569-571: the fetch fails or the response is not ok.
FetchIndexFails ==
    /\ home.pc = "mounted" /\ home.fetch = "pending"
    /\ home' = [home EXCEPT !.fetch = "failed"]
    /\ UNCHANGED <<ed, knn, sim, mh, ld, dl, js>>

\* Lines 560-567: the database is open; the puts of one transaction.
FetchIndexPuts ==
    /\ home.pc = "mounted" /\ home.fetch = "opening"
    /\ home' = [home EXCEPT
                  !.fetch = "done",
                  !.files = PutLoop(@, home.jsonResponse,
                                    home.fileIndex.paths, 0)]
    /\ UNCHANGED <<ed, knn, sim, mh, ld, dl, js>>

\* Lines 616-617 and 640: the user picks a listed path; then the effects
\* of lines 577-581 and 590-594.
SelectFile(path) ==
    /\ home.pc = "mounted"
    /\ \E n \in 1..Len(home.fileIndex.paths) : home.fileIndex.paths[n] = path
    /\ path # home.selectedFile
    /\ LET g == [home EXCEPT !.selectedFile = path]
           h == IF NeedsLoad(g, path)
                THEN [g EXCEPT !.loads = StartLoad(@, path)] ELSE g
       IN  home' = SimilarEffect(h)
    /\ \A p \in HomePaths : home'.loads[p] <= MaxPending
    /\ UNCHANGED <<ed, knn, sim, mh, ld, dl, js>>

\* Line 658: the user picks one of the similar files; then the effect of
\* lines 584-588.
SelectSimilarFile(path) ==
    /\ home.pc = "mounted"
    /\ \E n \in 1..Len(SimilarFiles(home)) : SimilarFiles(home)[n].path = path
    /\ path # home.selectedSimilarFile
    /\ LET g == [home EXCEPT !.selectedSimilarFile = path]
       IN  home' = IF NeedsLoad(g, path)
                   THEN [g EXCEPT !.loads = StartLoad(@, path)] ELSE g
    /\ \A p \in HomePaths : home'.loads[p] <= MaxPending
    /\ UNCHANGED <<ed, knn, sim, mh, ld, dl, js>>

\* Lines 505-513: request.onsuccess of a loadFileContent(path) in flight;
\* setData when the result is truthy, then the effect of lines 590-594.
LoadFileContentSuccess(path) ==
    /\ home.pc = "mounted"
    /\ home.loads[path] > 0
    /\ LET cached == StoreGet(home.files, path)
           g == [home EXCEPT
                   !.loads[path] = @ - 1,
                   !.served = IF home.fetch = "done"
                              THEN @ \cup {path} ELSE @]
       IN  home' = IF Falsy(cached) THEN g
                   ELSE SimilarEffect(
                           [g EXCEPT !.data = (path :> cached) @@ @])
    /\ \A p \in HomePaths : home'.loads[p] <= MaxPending
    /\ UNCHANGED <<ed, knn, sim, mh, ld, dl, js>>

NextHome ==
    \/ FetchIndexResponse
    \/ FetchIndexFails
    \/ FetchIndexPuts
    \/ \E path \in HomePaths : SelectFile(path)
    \/ \E path \in HomePaths : SelectSimilarFile(path)
    \/ \E path \in HomePaths : LoadFileContentSuccess(path)

SpecHome == InitHome /\ [][NextHome]_vars

\* C13: in every state in which findKNN is evaluated for a selected file,
\* every path of fileIndex.paths is a key of data and fileIndex.lengths of
\* the path is the length of data[path].
\* The host evaluates findKNN as soon as a file is selected, with the data
\* loaded so far.
C13_IndexConsistentWithData ==
    home.selectedFile # null =>
        \A n \in 1..Len(home.fileIndex.paths) :
            LET path == home.fileIndex.paths[n]
            IN  /\ path \in DOMAIN home.data
                /\ home.fileIndex.lengths[path] = Len(home.data[path])

\* C19: once fetchIndex has written the fetched corpus to the 'files'
\* store, a loadFileContent(P) whose request succeeds has read back the
\* content of P and set data[P] to it (home.served holds the paths P whose
\* request succeeded after the write).
\* The puts of fetchIndex store the path under the content as key, so
\* get(P) yields undefined, or the name of a file whose content is P.
C19_LoadReadsBackContent ==
    \A path \in home.served :
        /\ path \in DOMAIN home.data
        /\ home.data[path] = home.jsonResponse[path]

\* --- further claims on getLineDiffs (specification SpecLineDiffs) --------
RECURSIVE IsSubseq(_, _)
IsSubseq(s, t) ==
    IF s = <<>> THEN TRUE
    ELSE IF t = <<>> THEN FALSE
    ELSE IF Head(s) = Head(t) THEN IsSubseq(Tail(s), Tail(t))
    ELSE IsSubseq(s, Tail(t))

\* The elements of s at the positions of S, in order.
PickAt(s, S) == SelectSeq([n \in 1..Len(s) |-> <<n, s[n]>>],
                          LAMBDA e : e[1] \in S)

\* The length of a longest common subsequence, by enumeration.
LcsLength(s, t) ==
    LET common == {S \in SUBSET (1..Len(s)) :
                      IsSubseq([n \in 1..Len(PickAt(s, S)) |-> PickAt(s, S)[n][2]], t)}
    IN  CHOOSE c \in {Cardinality(S) : S \in common} :
            \A S \in common : Cardinality(S) <= c

Suffix(s, c) == SubSeq(s, c + 1, Len(s))

\* The rows at which both sides hold an unchanged line of the input.
SamePairs ==
    {n \in 1..Min2(Len(ld.result1), Len(ld.result2)) :
        /\ ld.result1[n].type = "same" /\ ~IsPlaceholder(ld.result1[n])
        /\ ld.result2[n].type = "same" /\ ~IsPlaceholder(ld.result2[n])}

\* C14: the walk of getLineDiffs stays in step with the LCS: the test of
\* line 104 holds only on lines equal to lcs[k]; lcs[k..] is at every step
\* a subsequence of both remaining line sequences; and the number of
\* same/same pairs of real lines returned is the length of a longest
\* common subsequence of the two line sequences.
C14_WalkInStepWithLcs ==
    /\ (ld.pc = "loop" /\ LdLoopCondition /\ IsSameStep(ld))
          => /\ ld.lines1[ld.i + 1] = ld.lcs[ld.k + 1]
             /\ ld.lines2[ld.j + 1] = ld.lcs[ld.k + 1]
    /\ ld.pc = "loop"
          => /\ IsSubseq(Suffix(ld.lcs, ld.k), Suffix(ld.lines1, ld.i))
             /\ IsSubseq(Suffix(ld.lcs, ld.k), Suffix(ld.lines2, ld.j))
    /\ LdReturned
          => /\ Cardinality(SamePairs) = LcsLength(ld.lines1, ld.lines2)
             /\ ld.k = Len(ld.lcs)

\* A returned walk that matched two LCS elements with a changed row and a
\* placeholder among its rows.
C14_Witness ==
    /\ LdReturned
    /\ Cardinality(SamePairs) = 2
    /\ \E n \in 1..Len(ld.result1) : ld.result1[n].type = "diff"
    /\ \E n \in 1..Len(ld.result1) : IsPlaceholder(ld.result1[n])

\* C15: getLineDiffs terminates: every iteration of the loop advances i or
\* j, no row has a placeholder on both sides, and the loop has run fewer
\* than n + m iterations whenever its condition still holds, so that it
\* ends after at most n + m iterations.
C15_WalkTerminates ==
    /\ (ld.pc = "loop" /\ LdLoopCondition)
          => /\ \/ IsSameStep(ld)
                \/ SideAdvances(ld.lines1, ld.i, ld.lcs, ld.k)
                \/ SideAdvances(ld.lines2, ld.j, ld.lcs, ld.k)
             /\ Len(ld.result1) < Len(ld.lines1) + Len(ld.lines2)
    /\ ld.pc \in {"loop", "returned"}
          => /\ Len(ld.result1) <= Len(ld.lines1) + Len(ld.lines2)
             /\ Len(ld.result1) <= ld.i + ld.j
             /\ \A n \in 1..Min2(Len(ld.result1), Len(ld.result2)) :
                   ~(IsPlaceholder(ld.result1[n]) /\ IsPlaceholder(ld.result2[n]))

\* A returned walk over two lines on each side in which all iterations
\* but one advanced a single cursor.
C15_Witness ==
    /\ LdReturned
    /\ Len(ld.lines1) >= 2 /\ Len(ld.lines2) >= 2
    /\ Len(ld.result1) = Len(ld.lines1) + Len(ld.lines2) - 1

\* The 1-based index of the input line shown in row r of a side.
LineOfRow(rows, r) == Cardinality({n \in 1..r : ~IsPlaceholder(rows[n])})

\* The words of the line the other side shows in row r; none for a
\* placeholder.
OppositeWords(rows, lines, r) ==
    IF IsPlaceholder(rows[r]) THEN <<>>
    ELSE Split(lines[LineOfRow(rows, r)], SP)

\* The text of a changed row whose words are marked against `others`.
MarkedAgainst(line, others, open) ==
    LET words == Split(line, SP)
        head  == SubSeq(words, 1, Min2(Len(words), WordCap))
        spans == [n \in 1..Len(head) |->
                     IF \E m \in 1..Len(others) : others[m] = head[n]
                     THEN head[n] ELSE open \o head[n] \o SpanClose]
        rest  == SubSeq(words, WordCap + 1, Len(words))
    IN  Join(IF Len(words) > WordCap
             THEN Append(spans, open \o Join(rest, <<SP>>) \o SpanClose)
             ELSE spans, <<SP>>)

\* C16: in every changed row r of a side, each of the first 100 words of
\* the line is marked exactly when it is not among the words of the line
\* the other side shows in the same row r (a placeholder having no words),
\* the words past the first 100 forming one trailing marked span.
\* The code marks against the line at the other side's cursor, which the
\* other side has not pushed when it pushes a placeholder.
C16_MarkedAgainstOppositeRow ==
    LdReturned =>
        \A r \in 1..Min2(Len(ld.result1), Len(ld.result2)) :
            /\ ld.result1[r].type = "diff"
                  => ld.result1[r].text
                       = MarkedAgainst(ld.lines1[LineOfRow(ld.result1, r)],
                                       OppositeWords(ld.result2, ld.lines2, r),
                                       SpanRedOpen)
            /\ ld.result2[r].type = "diff"
                  => ld.result2[r].text
                       = MarkedAgainst(ld.lines2[LineOfRow(ld.result2, r)],
                                       OppositeWords(ld.result1, ld.lines1, r),
                                       SpanGreenOpen)

\* --- further claims on getMinHash (specification SpecHash) ---------------
\* The set of whitespace-trimmed lines of the first 10,000 characters of a
\* text, from the positions of its newlines.
TrimmedLineSet(text) ==
    LET prefix == SubSeq(text, 1, Min2(Len(text), SliceLimit))
        seps   == {0, Len(prefix) + 1}
                     \cup {n \in 1..Len(prefix) : prefix[n] = NL}
        lines  == {SubSeq(prefix, p + 1, q - 1) :
                      <<p, q>> \in {pq \in seps \X seps :
                                       /\ pq[1] < pq[2]
                                       /\ ~\E r \in seps : pq[1] < r /\ r < pq[2]}}
        Trimmed(s) ==
            LET keep == {n \in 1..Len(s) : ~IsWhiteSpace(s[n])}
            IN  IF keep = {} THEN <<>>
                ELSE SubSeq(s, CHOOSE n \in keep : \A m \in keep : n <= m,
                               CHOOSE n \in keep : \A m \in keep : n >= m)
    IN  {Trimmed(l) : l \in lines}

NonEmptyCandidateCalls ==
    {n \in 1..Len(knn.calls) : ~Falsy(Get(knn.data, knn.candidates[n]))}

\* C18: inside findKNN the bound never cuts a computation short: for every
\* candidate with non-empty content, neither the length check (line 381)
\* nor the row-minimum abort (line 407) of editDistance fires, and the call
\* runs all Lq rows and returns the final cell of the table (line 413).
\* A query whose content is not loaded makes every call return at line 376.
C18_BoundNeverCuts ==
    KnnReturned =>
        \A n \in NonEmptyCandidateCalls :
            /\ knn.calls[n].line # 381
            /\ knn.calls[n].line # 407
            /\ knn.calls[n].line = 413
            /\ knn.calls[n].i = Lq + 1

\* The same for the queries whose content is loaded.
LoadedQueryRunsAllRows ==
    (KnnReturned /\ ~Falsy(Get(knn.data, knn.target))) =>
        \A n \in NonEmptyCandidateCalls :
            /\ knn.calls[n].line = 413
            /\ knn.calls[n].i = Lq + 1

====
